---- MODULE Spec2Model ----
(***************************************************************************)
(* Model of Day 17/crawler.py: main() awaits one deep crawl, then writes   *)
(* the result sequence to a markdown, a text and a JSON file whose names   *)
(* carry one timestamp, and prints a summary.                              *)
(*                                                                         *)
(* Python values are tagged records [t, v] so that None, a missing key, a  *)
(* string, an int and a raised exception are all comparable.  Strings are  *)
(* sequences of character codes.  A list is kept by its length, the only   *)
(* thing the program reads of one.                                         *)
(***************************************************************************)
EXTENDS Integers, Sequences, FiniteSets, TLC

-----------------------------------------------------------------------------
(* Bounds of the model *)
MaxPages == 2
MaxExtra == 1
MaxClock == 3
TicksPerSecond == 2

(* Program constants *)
PreviewLen == 500
MaxPagesLimit == 200
SeedUrl == "https://www.wikipedia.org"
Ellipsis == <<46, 46, 46>>

-----------------------------------------------------------------------------
(* Python values *)
None == [t |-> "none", v |-> <<>>]
Missing == [t |-> "missing", v |-> <<>>]
Raise == [t |-> "raise", v |-> <<>>]
PyStr(s) == [t |-> "str", v |-> s]
PyInt(n) == [t |-> "int", v |-> <<n>>]
PyDict(entries) == [t |-> "dict", v |-> entries]

\* bool(x): None, "", 0 and {} are falsy.  A dict is kept as the lengths of
\* the lists under its two keys, -1 for a key that is not there.
Truthy(x) ==
    CASE x.t = "str" -> Len(x.v) > 0
      [] x.t = "int" -> x.v[1] # 0
      [] x.t = "dict" -> \E i \in 1..Len(x.v) : x.v[i] >= 0
      [] OTHER -> FALSE

\* len(x): TypeError on None.
PyLen(x) == IF x.t = "str" THEN PyInt(Len(x.v)) ELSE Raise

\* x > n on ints; an exception propagates.
PyGt(x, n) == IF x.t = "int" THEN x.v[1] > n ELSE FALSE

\* x[:n]: TypeError on None.
Slice(x, n) ==
    IF x.t = "str"
    THEN PyStr(SubSeq(x.v, 1, IF Len(x.v) < n THEN Len(x.v) ELSE n))
    ELSE Raise

\* x + y on strings.
Concat(x, y) == IF x.t = "str" /\ y.t = "str" THEN PyStr(x.v \o y.v) ELSE Raise

\* d.get(key, default) on the metadata dict: a key that is there with the
\* value None yields None, not the default.
DictGet(d, key, default) == IF d[key] = Missing THEN default ELSE d[key]

\* len(d.get(key, [])) on the links / media dict; key 1 is the one read.
ListLenGet(d, key) == IF d.v[key] < 0 THEN PyInt(0) ELSE PyInt(d.v[key])

-----------------------------------------------------------------------------
(* Per-page derivations *)

\* result.metadata.get('depth', 0)
Depth(r) == DictGet(r.metadata, "depth", PyInt(0))

\* len(result.cleaned_html) if result.cleaned_html else 0
ContentLength(r) ==
    IF Truthy(r.cleaned_html) THEN PyLen(r.cleaned_html) ELSE PyInt(0)

\* result.cleaned_html[:500] + "..." if len(result.cleaned_html) > 500
\*                                    else result.cleaned_html
PreviewOffByOne(c) ==
    IF PyLen(c) = Raise THEN Raise
    ELSE IF PyGt(PyLen(c), PreviewLen - 1)
         THEN Concat(Slice(c, PreviewLen), PyStr(Ellipsis))
         ELSE c
Preview(c) ==
    IF PyLen(c) = Raise THEN Raise
    ELSE IF PyGt(PyLen(c), PreviewLen)
         THEN Concat(Slice(c, PreviewLen), PyStr(Ellipsis))
         ELSE c

\* The preview block of the markdown and text sections: written only
\* under `if result.cleaned_html:`; Missing stands for no block.
PreviewBlock(r) ==
    IF Truthy(r.cleaned_html) THEN Preview(r.cleaned_html) ELSE Missing

\* result.cleaned_html[:500] + "..."
\*   if result.cleaned_html and len(result.cleaned_html) > 500
\*   else result.cleaned_html or ""
JsonPreviewNoOr(r) ==
    IF Truthy(r.cleaned_html) THEN Preview(r.cleaned_html) ELSE r.cleaned_html
JsonPreview(r) ==
    IF Truthy(r.cleaned_html) /\ PyGt(PyLen(r.cleaned_html), PreviewLen)
    THEN Concat(Slice(r.cleaned_html, PreviewLen), PyStr(Ellipsis))
    ELSE IF Truthy(r.cleaned_html) THEN r.cleaned_html ELSE PyStr(<<>>)

\* result.metadata.get('title', ''), result.metadata.get('description', '')
Title(r) == DictGet(r.metadata, "title", PyStr(<<>>))
Description(r) == DictGet(r.metadata, "description", PyStr(<<>>))

\* len(result.links.get('internal', []))
\*   if hasattr(result, 'links') and result.links else 0
LinksFoundUnguarded(r) ==
    IF r.links.t = "dict" THEN ListLenGet(r.links, 1) ELSE Raise
LinksFound(r) ==
    IF r.links # Missing /\ Truthy(r.links)
    THEN ListLenGet(r.links, 1) ELSE PyInt(0)

\* len(result.media.get('images', []))
\*   if hasattr(result, 'media') and result.media else 0
ImagesFound(r) ==
    IF r.media # Missing /\ Truthy(r.media)
    THEN ListLenGet(r.media, 1) ELSE PyInt(0)

\* enumerate(results, 1): the number given to the k-th element.
PageNumberFromZero(k) == k - 1
PageNumber(k) == k

-----------------------------------------------------------------------------
(* The three encodings of one page *)

MdSection(k, r) ==
    [page_number |-> PyInt(PageNumber(k)),
     url |-> r.url,
     depth |-> Depth(r),
     status_code |-> r.status_code,
     content_length |-> ContentLength(r),
     preview |-> PreviewBlock(r)]

TxtSection(k, r) ==
    [page_number |-> PyInt(PageNumber(k)),
     url |-> r.url,
     depth |-> Depth(r),
     status_code |-> r.status_code,
     content_length |-> ContentLength(r),
     preview |-> PreviewBlock(r)]

PageData(k, r) ==
    [page_number |-> PyInt(PageNumber(k)),
     url |-> r.url,
     depth |-> Depth(r),
     status_code |-> r.status_code,
     content_length |-> ContentLength(r),
     title |-> Title(r),
     description |-> Description(r),
     content_preview |-> JsonPreview(r),
     links_found |-> LinksFound(r),
     images_found |-> ImagesFound(r)]

\* An exception raised while one page's fields are evaluated.
Raises(section) == \E f \in DOMAIN section : section[f] = Raise

MdSections(rs) == [k \in 1..Len(rs) |-> MdSection(k, rs[k])]
TxtSections(rs) == [k \in 1..Len(rs) |-> TxtSection(k, rs[k])]
JsonResultsSkipEmpty(rs) ==
    LET all == [k \in 1..Len(rs) |-> PageData(k, rs[k])]
    IN SelectSeq(all, LAMBDA p : p.content_length # PyInt(0))
JsonResults(rs) == [k \in 1..Len(rs) |-> PageData(k, rs[k])]

\* The sections written before the first page that raises.
Written(secs) ==
    LET bad == {k \in 1..Len(secs) : Raises(secs[k])}
    IN IF bad = {} THEN secs
       ELSE SubSeq(secs, 1, (CHOOSE k \in bad : \A j \in bad : k <= j) - 1)

\* strftime at second resolution: the second a clock reading falls in.
\* "%Y%m%d_%H%M%S" and '%Y-%m-%d %H:%M:%S' print the same second.
Strftime(now) == now \div TicksPerSecond


-----------------------------------------------------------------------------
(* What the crawl can return *)

\* A cleaned_html of length n; the character depends on the position, so a
\* prefix differs from any other slice of the same length.
ContentOf(n) == PyStr([i \in 1..n |-> 97 + (i % 5)])

ContentLens == {0, 2} \cup (PreviewLen .. PreviewLen + MaxExtra)
Contents == {None} \cup {ContentOf(n) : n \in ContentLens}

\* metadata, links and media of a page: everything there; keys there with
\* the value None and collections None; keys and attributes not there;
\* collections there without the key that is read.
FullProfile ==
    [metadata |-> [depth |-> PyInt(1), title |-> PyStr(<<84>>),
                   description |-> PyStr(<<68>>)],
     links |-> PyDict(<<2, 1>>), media |-> PyDict(<<1, -1>>)]
NoneProfile ==
    [metadata |-> [depth |-> PyInt(2), title |-> None, description |-> None],
     links |-> None, media |-> None]
BareProfile ==
    [metadata |-> [depth |-> Missing, title |-> Missing,
                   description |-> Missing],
     links |-> Missing, media |-> Missing]
EmptyProfile ==
    [metadata |-> [depth |-> PyInt(1), title |-> PyStr(<<84>>),
                   description |-> Missing],
     links |-> PyDict(<<-1, -1>>), media |-> PyDict(<<-1, 3>>)]
Profiles == {FullProfile, NoneProfile, BareProfile, EmptyProfile}

MkPage(c, p) ==
    [url |-> PyStr(<<>>), status_code |-> PyInt(200), cleaned_html |-> c,
     metadata |-> p.metadata, links |-> p.links, media |-> p.media]

Pages == {MkPage(c, p) : c \in Contents, p \in Profiles}

\* The pages the orchestration is run on: the three kinds of page, one each.
RunPages ==
    {MkPage(ContentOf(2), FullProfile), MkPage(None, NoneProfile),
     MkPage(ContentOf(PreviewLen + 1), BareProfile)}

\* A breadth-first crawl visits each URL once: the k-th result has the k-th
\* URL.
WithUrls(ps) == [k \in 1..Len(ps) |-> [ps[k] EXCEPT !.url = PyStr(<<k>>)]]

SeqsUpTo(S, n) == UNION {[1..m -> S] : m \in 0..n}

-----------------------------------------------------------------------------
(* State *)

VARIABLES
    pc,             \* the statement main() is at
    crawl,          \* "idle", "pending", "returned", "failed", "interrupted"
    crawlCalls,     \* number of calls of crawler.arun
    results,        \* what crawler.arun returned
    clock,          \* the wall clock, in ticks
    dirMade,        \* os.makedirs has run
    timestamp,      \* the formatted timestamp, -1 before line 31
    md_filename, txt_filename, json_filename,
    md_file, txt_file, json_file,   \* the files of this run
    json_data,      \* the dict built at lines 86-109
    printed,        \* the "Results saved to" summary was printed
    failedAt        \* the statement an exception was raised at

vars == <<pc, crawl, crawlCalls, results, clock, dirMade, timestamp,
          md_filename, txt_filename, json_filename, md_file, txt_file,
          json_file, json_data, printed, failedAt>>

NoName == [token |-> -1, ext |-> "none"]
NoFile == [state |-> "none", crawl_date |-> -1, total |-> -1,
           sections |-> <<>>]
NoInfo == [crawl_date |-> -1, total_pages_crawled |-> -1,
           max_pages_limit |-> -1, starting_url |-> ""]
NoData == [built |-> FALSE, crawl_info |-> NoInfo, results |-> <<>>]
NoJsonFile == [state |-> "none", data |-> NoData]

\* f"crawl_results_{timestamp}.ext": the token comes from the variable.
TokenFromClock(ts, now) == Strftime(now)
NameToken(ts, now) == ts

FileName(ts, now, ext) == [token |-> NameToken(ts, now), ext |-> ext]

\* len(results) in the headers and in crawl_info.
TotalPages(rs) == Len(rs)

Init ==
    /\ pc = "start"
    /\ crawl = "idle"
    /\ crawlCalls = 0
    /\ results = <<>>
    /\ clock = 0
    /\ dirMade = FALSE
    /\ timestamp = -1
    /\ md_filename = NoName
    /\ txt_filename = NoName
    /\ json_filename = NoName
    /\ md_file = NoFile
    /\ txt_file = NoFile
    /\ json_file = NoJsonFile
    /\ json_data = NoData
    /\ printed = FALSE
    /\ failedAt = "none"


-----------------------------------------------------------------------------
(* main(), statement by statement *)

\* Lines 11-22: build the config, enter the crawler, call arun and suspend.
StartCrawl ==
    /\ pc = "start"
    /\ pc' = "crawl"
    /\ crawl' = "pending"
    /\ crawlCalls' = crawlCalls + 1
    /\ UNCHANGED <<results, clock, dirMade, timestamp, md_filename,
                   txt_filename, json_filename, md_file, txt_file, json_file,
                   json_data, printed, failedAt>>

\* Line 22: the await resolves with the whole result sequence.
CrawlReturns ==
    /\ pc = "crawl"
    /\ \E ps \in SeqsUpTo(RunPages, MaxPages) : results' = WithUrls(ps)
    /\ crawl' = "returned"
    /\ pc' = "makedirs"
    /\ UNCHANGED <<crawlCalls, clock, dirMade, timestamp, md_filename,
                   txt_filename, json_filename, md_file, txt_file, json_file,
                   json_data, printed, failedAt>>

\* Line 22: arun raises; nothing in main() catches it.
CrawlFailsSwallowed ==
    /\ pc = "crawl"
    /\ crawl' = "failed"
    /\ pc' = "makedirs"
    /\ UNCHANGED <<crawlCalls, results, clock, dirMade, timestamp,
                   md_filename, txt_filename, json_filename, md_file,
                   txt_file, json_file, json_data, printed, failedAt>>
CrawlFails ==
    /\ pc = "crawl"
    /\ crawl' = "failed"
    /\ pc' = "aborted"
    /\ failedAt' = "crawl"
    /\ UNCHANGED <<crawlCalls, results, clock, dirMade, timestamp,
                   md_filename, txt_filename, json_filename, md_file,
                   txt_file, json_file, json_data, printed>>

\* Line 125: asyncio.run is interrupted while main() is suspended at line 22.
Interrupt ==
    /\ pc = "crawl"
    /\ crawl' = "interrupted"
    /\ pc' = "aborted"
    /\ failedAt' = "crawl"
    /\ UNCHANGED <<crawlCalls, results, clock, dirMade, timestamp,
                   md_filename, txt_filename, json_filename, md_file,
                   txt_file, json_file, json_data, printed>>

\* Lines 24-28: print the count, create the directory.
MakeDirs ==
    /\ pc = "makedirs"
    /\ dirMade' = TRUE
    /\ pc' = "timestamp"
    /\ UNCHANGED <<crawl, crawlCalls, results, clock, timestamp, md_filename,
                   txt_filename, json_filename, md_file, txt_file, json_file,
                   json_data, printed, failedAt>>

\* Line 28: os.makedirs raises OSError.
MakeDirsFails ==
    /\ pc = "makedirs"
    /\ pc' = "aborted"
    /\ failedAt' = "makedirs"
    /\ UNCHANGED <<crawl, crawlCalls, results, clock, dirMade, timestamp,
                   md_filename, txt_filename, json_filename, md_file,
                   txt_file, json_file, json_data, printed>>

\* Line 31: timestamp = datetime.now().strftime("%Y%m%d_%H%M%S")
Timestamp ==
    /\ pc = "timestamp"
    /\ timestamp' = Strftime(clock)
    /\ pc' = "md_name"
    /\ UNCHANGED <<crawl, crawlCalls, results, clock, dirMade, md_filename,
                   txt_filename, json_filename, md_file, txt_file, json_file,
                   json_data, printed, failedAt>>

\* Line 34
MdFileName ==
    /\ pc = "md_name"
    /\ md_filename' = FileName(timestamp, clock, ".md")
    /\ pc' = "txt_name"
    /\ UNCHANGED <<crawl, crawlCalls, results, clock, dirMade, timestamp,
                   txt_filename, json_filename, md_file, txt_file, json_file,
                   json_data, printed, failedAt>>

\* Line 35
TxtFileName ==
    /\ pc = "txt_name"
    /\ txt_filename' = FileName(timestamp, clock, ".txt")
    /\ pc' = "json_name"
    /\ UNCHANGED <<crawl, crawlCalls, results, clock, dirMade, timestamp,
                   md_filename, json_filename, md_file, txt_file, json_file,
                   json_data, printed, failedAt>>

\* Line 36
JsonFileName ==
    /\ pc = "json_name"
    /\ json_filename' = FileName(timestamp, clock, ".json")
    /\ pc' = "write_md"
    /\ UNCHANGED <<crawl, crawlCalls, results, clock, dirMade, timestamp,
                   md_filename, txt_filename, md_file, txt_file, json_file,
                   json_data, printed, failedAt>>

\* The wall clock advances between any two statements of a run.
Tick ==
    /\ pc \notin {"done", "aborted"}
    /\ clock < MaxClock
    /\ clock' = clock + 1
    /\ UNCHANGED <<pc, crawl, crawlCalls, results, dirMade, timestamp,
                   md_filename, txt_filename, json_filename, md_file,
                   txt_file, json_file, json_data, printed, failedAt>>

\* The file a write loop leaves: complete, or cut at the page that raised.
FileOf(secs, rs, now) ==
    [state |-> IF Written(secs) = secs THEN "complete" ELSE "partial",
     crawl_date |-> Strftime(now),
     total |-> TotalPages(rs),
     sections |-> Written(secs)]

\* Lines 39-59: the header with datetime.now(), then one section per page.
WriteMarkdown ==
    /\ pc = "write_md"
    /\ md_file' = FileOf(MdSections(results), results, clock)
    /\ IF md_file'.state = "complete"
       THEN pc' = "write_txt" /\ UNCHANGED failedAt
       ELSE pc' = "aborted" /\ failedAt' = "write_md"
    /\ UNCHANGED <<crawl, crawlCalls, results, clock, dirMade, timestamp,
                   md_filename, txt_filename, json_filename, txt_file,
                   json_file, json_data, printed>>

\* Lines 39-59: open() raises (no file), or a write raises after k sections.
WriteMarkdownFails ==
    /\ pc = "write_md"
    /\ \/ md_file' = NoFile
       \/ \E k \in 0..Len(results) :
            md_file' = [FileOf(SubSeq(MdSections(results), 1, k), results,
                               clock) EXCEPT !.state = "partial"]
    /\ pc' = "aborted"
    /\ failedAt' = "write_md"
    /\ UNCHANGED <<crawl, crawlCalls, results, clock, dirMade, timestamp,
                   md_filename, txt_filename, json_filename, txt_file,
                   json_file, json_data, printed>>

\* Lines 62-83
WriteText ==
    /\ pc = "write_txt"
    /\ txt_file' = FileOf(TxtSections(results), results, clock)
    /\ IF txt_file'.state = "complete"
       THEN pc' = "build_json" /\ UNCHANGED failedAt
       ELSE pc' = "aborted" /\ failedAt' = "write_txt"
    /\ UNCHANGED <<crawl, crawlCalls, results, clock, dirMade, timestamp,
                   md_filename, txt_filename, json_filename, md_file,
                   json_file, json_data, printed>>

WriteTextFails ==
    /\ pc = "write_txt"
    /\ \/ txt_file' = NoFile
       \/ \E k \in 0..Len(results) :
            txt_file' = [FileOf(SubSeq(TxtSections(results), 1, k), results,
                                clock) EXCEPT !.state = "partial"]
    /\ pc' = "aborted"
    /\ failedAt' = "write_txt"
    /\ UNCHANGED <<crawl, crawlCalls, results, clock, dirMade, timestamp,
                   md_filename, txt_filename, json_filename, md_file,
                   json_file, json_data, printed>>

\* Lines 86-109: crawl_info with datetime.now(), then one object per page,
\* all in memory; an exception in the loop leaves the dict unfinished.
BuildJson ==
    /\ pc = "build_json"
    /\ LET pages == JsonResults(results)
       IN /\ json_data' =
               [built |-> Written(pages) = pages,
                crawl_info |->
                    [crawl_date |-> Strftime(clock),
                     total_pages_crawled |-> TotalPages(results),
                     max_pages_limit |-> MaxPagesLimit,
                     starting_url |-> SeedUrl],
                results |-> Written(pages)]
          /\ IF Written(pages) = pages
             THEN pc' = "write_json" /\ UNCHANGED failedAt
             ELSE pc' = "aborted" /\ failedAt' = "build_json"
    /\ UNCHANGED <<crawl, crawlCalls, results, clock, dirMade, timestamp,
                   md_filename, txt_filename, json_filename, md_file,
                   txt_file, json_file, printed>>

\* Lines 111-112: json.dump of the finished dict.
WriteJson ==
    /\ pc = "write_json"
    /\ json_file' = [state |-> "complete", data |-> json_data]
    /\ pc' = "summary"
    /\ UNCHANGED <<crawl, crawlCalls, results, clock, dirMade, timestamp,
                   md_filename, txt_filename, json_filename, md_file,
                   txt_file, json_data, printed, failedAt>>

\* Lines 111-112: open() raises (no file), or json.dump raises part-way.
WriteJsonFailsSwallowed ==
    /\ pc = "write_json"
    /\ json_file' = NoJsonFile
    /\ pc' = "summary"
    /\ failedAt' = "write_json"
    /\ UNCHANGED <<crawl, crawlCalls, results, clock, dirMade, timestamp,
                   md_filename, txt_filename, json_filename, md_file,
                   txt_file, json_data, printed>>
WriteJsonFails ==
    /\ pc = "write_json"
    /\ \/ json_file' = NoJsonFile
       \/ \E k \in 0..Len(results) :
            json_file' = [state |-> "partial",
                          data |-> [json_data EXCEPT
                                      !.results = SubSeq(@, 1, k)]]
    /\ pc' = "aborted"
    /\ failedAt' = "write_json"
    /\ UNCHANGED <<crawl, crawlCalls, results, clock, dirMade, timestamp,
                   md_filename, txt_filename, json_filename, md_file,
                   txt_file, json_data, printed>>

\* Lines 114-122: the three paths, then URL and depth of the first three.
PrintSummary ==
    /\ pc = "summary"
    /\ printed' = TRUE
    /\ pc' = "done"
    /\ UNCHANGED <<crawl, crawlCalls, results, clock, dirMade, timestamp,
                   md_filename, txt_filename, json_filename, md_file,
                   txt_file, json_file, json_data, failedAt>>

Next ==
    \/ StartCrawl
    \/ CrawlReturns
    \/ CrawlFails
    \/ Interrupt
    \/ MakeDirs
    \/ MakeDirsFails
    \/ Timestamp
    \/ MdFileName
    \/ TxtFileName
    \/ JsonFileName
    \/ Tick
    \/ WriteMarkdown
    \/ WriteMarkdownFails
    \/ WriteText
    \/ WriteTextFails
    \/ BuildJson
    \/ WriteJson
    \/ WriteJsonFails
    \/ PrintSummary

Spec == Init /\ [][Next]_vars

-----------------------------------------------------------------------------
(* The formatter on every kind of page: the run from the point where the   *)
(* crawl has returned and the names are fixed, with the clock standing and *)
(* the filesystem accepting every write.                                   *)

FormatInit ==
    /\ pc = "write_md"
    /\ crawl = "returned"
    /\ crawlCalls = 1
    /\ results \in {WithUrls(ps) : ps \in SeqsUpTo(Pages, MaxPages)}
    /\ clock = 0
    /\ dirMade = TRUE
    /\ timestamp = Strftime(0)
    /\ md_filename = FileName(Strftime(0), 0, ".md")
    /\ txt_filename = FileName(Strftime(0), 0, ".txt")
    /\ json_filename = FileName(Strftime(0), 0, ".json")
    /\ md_file = NoFile
    /\ txt_file = NoFile
    /\ json_file = NoJsonFile
    /\ json_data = NoData
    /\ printed = FALSE
    /\ failedAt = "none"

FormatNext ==
    \/ WriteMarkdown
    \/ WriteText
    \/ BuildJson
    \/ WriteJson
    \/ PrintSummary

FormatSpec == FormatInit /\ [][FormatNext]_vars


-----------------------------------------------------------------------------
(* Properties *)

\* What each output holds for the k-th page, once it is there.
MdOf(k) == md_file.sections[k]
TxtOf(k) == txt_file.sections[k]
JsonOf(k) == json_data.results[k]
InMd(k) == k \in DOMAIN md_file.sections
InTxt(k) == k \in DOMAIN txt_file.sections
InJson(k) == k \in DOMAIN json_data.results

\* The preview the specification asks for, written out on the characters.
ExpectedPreview(c) ==
    IF Len(c.v) > PreviewLen
    THEN PyStr(SubSeq(c.v, 1, PreviewLen) \o <<46, 46, 46>>)
    ELSE c

PreviewAgrees(k) ==
    LET want == ExpectedPreview(results[k].cleaned_html)
    IN /\ InMd(k) => MdOf(k).preview = want
       /\ InTxt(k) => TxtOf(k).preview = want
       /\ InJson(k) => JsonOf(k).content_preview = want

\* C1 as stated: for every page whose cleaned content is present (not
\* None), every output that holds the page shows the first 500 characters
\* plus "..." when the content is longer than 500, the content itself
\* otherwise, the same string in markdown, text and JSON.
C1_PreviewWhenPresent ==
    \A k \in 1..Len(results) :
        results[k].cleaned_html.t = "str" => PreviewAgrees(k)

\* C1 amended: the same, for every page whose cleaned content is present
\* and not the empty string.
C1_PreviewWhenNonEmpty ==
    \A k \in 1..Len(results) :
        (results[k].cleaned_html.t = "str"
         /\ Len(results[k].cleaned_html.v) > 0) => PreviewAgrees(k)

C1_Witness ==
    /\ pc = "done"
    /\ \E k \in 1..Len(results) :
         /\ results[k].cleaned_html.t = "str"
         /\ Len(results[k].cleaned_html.v) > PreviewLen
    /\ \E k \in 1..Len(results) :
         /\ results[k].cleaned_html.t = "str"
         /\ Len(results[k].cleaned_html.v) = PreviewLen

\* C2: for every page whose cleaned content is None, content_length is 0 in
\* all three outputs, the JSON content_preview is "" and the markdown and
\* text sections have no preview block.
C2_AbsentContent ==
    \A k \in 1..Len(results) :
        results[k].cleaned_html = None =>
            /\ InMd(k) => /\ MdOf(k).content_length = PyInt(0)
                          /\ MdOf(k).preview = Missing
            /\ InTxt(k) => /\ TxtOf(k).content_length = PyInt(0)
                           /\ TxtOf(k).preview = Missing
            /\ InJson(k) => /\ JsonOf(k).content_length = PyInt(0)
                            /\ JsonOf(k).content_preview = PyStr(<<>>)

C2_Witness ==
    /\ pc = "done"
    /\ \E k \in 1..Len(results) : results[k].cleaned_html = None

\* C3: once the JSON dict is built, and in the JSON file written from it,
\* the results array is as long as crawl_info.total_pages_crawled says and
\* as the result sequence is, the empty sequence included.
C3_JsonCount ==
    /\ pc \in {"write_json", "summary", "done"} =>
         /\ Len(json_data.results) = json_data.crawl_info.total_pages_crawled
         /\ Len(json_data.results) = Len(results)
    /\ json_file.state = "complete" =>
         /\ Len(json_file.data.results)
              = json_file.data.crawl_info.total_pages_crawled
         /\ Len(json_file.data.results) = Len(results)

C3_Witness ==
    /\ pc = "done"
    /\ Len(results) = MaxPages
    /\ \E k \in 1..Len(results) : results[k].cleaned_html = None

\* C4: in each output the k-th entry has page number k and the URL, status
\* code and depth of the k-th result: numbers start at 1 and go up by one
\* in input order.
C4_PageNumbering ==
    \A k \in 1..MaxPages + 1 :
        /\ InMd(k) => /\ MdOf(k).page_number = PyInt(k)
                      /\ k <= Len(results)
                      /\ MdOf(k).url = results[k].url
                      /\ MdOf(k).status_code = results[k].status_code
        /\ InTxt(k) => /\ TxtOf(k).page_number = PyInt(k)
                       /\ k <= Len(results)
                       /\ TxtOf(k).url = results[k].url
                       /\ TxtOf(k).status_code = results[k].status_code
        /\ InJson(k) => /\ JsonOf(k).page_number = PyInt(k)
                        /\ k <= Len(results)
                        /\ JsonOf(k).url = results[k].url
                        /\ JsonOf(k).status_code = results[k].status_code

C4_Witness ==
    /\ pc = "done"
    /\ Len(results) >= 2
    /\ results[1] # results[2]

\* C5: every file name of a run that has been formed carries the token of
\* the one timestamp of line 31, so the three tokens are identical, however
\* far the clock has moved on since.
C5_OneTimestampToken ==
    /\ \A n \in {md_filename, txt_filename, json_filename} :
         n # NoName => n.token = timestamp
    /\ pc \in {"write_md", "write_txt", "build_json", "write_json",
               "summary", "done"} =>
         /\ md_filename.token = txt_filename.token
         /\ txt_filename.token = json_filename.token
         /\ md_filename.token >= 0

C5_Witness ==
    /\ pc = "done"
    /\ Strftime(clock) # timestamp
    /\ md_filename.token = json_filename.token

\* C6 as stated: for every page whose title (description) is absent, be the
\* key missing from the metadata or there with the value None, the JSON
\* page object's title (description) is the empty string.
C6_TitleNeverNull ==
    \A k \in 1..Len(results) :
        InJson(k) =>
            /\ results[k].metadata.title \in {Missing, None} =>
                 JsonOf(k).title = PyStr(<<>>)
            /\ results[k].metadata.description \in {Missing, None} =>
                 JsonOf(k).description = PyStr(<<>>)

\* C7: until the crawl call has returned no directory, file name, file or
\* JSON dict of the run exists and nothing is printed; a failed or
\* interrupted crawl ends the run there; arun is called at most once.
C7_NothingBeforeCrawl ==
    /\ crawl # "returned" =>
         /\ ~dirMade
         /\ md_file = NoFile /\ txt_file = NoFile /\ json_file = NoJsonFile
         /\ md_filename = NoName /\ txt_filename = NoName
         /\ json_filename = NoName
         /\ json_data = NoData
         /\ ~printed
    /\ crawl \in {"failed", "interrupted"} =>
         pc = "aborted" /\ failedAt = "crawl"
    /\ crawlCalls <= 1

C7_Witness ==
    /\ pc = "aborted"
    /\ crawl = "interrupted"
    /\ clock > 0

\* The statements of main() in order.
StepNo(step) ==
    CASE step = "crawl" -> 1
      [] step = "makedirs" -> 2
      [] step = "write_md" -> 3
      [] step = "write_txt" -> 4
      [] step = "build_json" -> 5
      [] step = "write_json" -> 6
      [] OTHER -> 7

\* C8: a run ends in one of two ways.  If the summary is printed, all three
\* files are complete and nothing failed.  If a statement failed, the run
\* is aborted, the summary is not printed and no later statement has had
\* any effect.  A run that is not over can always take a step.
C8_TwoOutcomes ==
    /\ printed => /\ md_file.state = "complete"
                  /\ txt_file.state = "complete"
                  /\ json_file.state = "complete"
                  /\ failedAt = "none"
    /\ pc = "done" => printed
    /\ (pc = "aborted") = (failedAt # "none")
    /\ failedAt # "none" =>
         /\ ~printed
         /\ StepNo(failedAt) <= 1 => ~dirMade
         /\ StepNo(failedAt) <= 2 => timestamp = -1 /\ md_file = NoFile
         /\ StepNo(failedAt) <= 3 => txt_file = NoFile
         /\ StepNo(failedAt) <= 4 => json_data = NoData
         /\ StepNo(failedAt) <= 5 => json_file = NoJsonFile
         /\ json_file.state # "complete"
    /\ pc \notin {"done", "aborted"} => ENABLED Next

C8_Witness ==
    /\ pc = "aborted"
    /\ failedAt = "write_json"
    /\ md_file.state = "complete"
    /\ txt_file.state = "complete"
    /\ json_file.state = "partial"

\* The number of entries under the key that is read, for a collection that
\* is there.
CountIn(coll) == IF coll.v[1] < 0 THEN 0 ELSE coll.v[1]

\* C9: whatever a page lacks, no page aborts the run and a finished run has
\* all three files complete with one entry per result; depth is 0 when the
\* metadata has no depth, content_length is 0 when the content is None,
\* links_found and images_found are 0 when the collection is missing or
\* None and the number of internal links / images when it is there.
C9_PartialPages ==
    /\ pc # "aborted" /\ failedAt = "none"
    /\ pc = "done" =>
         /\ md_file.state = "complete" /\ txt_file.state = "complete"
         /\ json_file.state = "complete"
         /\ Len(md_file.sections) = Len(results)
         /\ Len(txt_file.sections) = Len(results)
         /\ Len(json_file.data.results) = Len(results)
    /\ \A k \in 1..Len(results) :
         LET r == results[k]
         IN /\ r.metadata.depth = Missing =>
                 /\ InMd(k) => MdOf(k).depth = PyInt(0)
                 /\ InTxt(k) => TxtOf(k).depth = PyInt(0)
                 /\ InJson(k) => JsonOf(k).depth = PyInt(0)
            /\ r.cleaned_html = None =>
                 /\ InMd(k) => MdOf(k).content_length = PyInt(0)
                 /\ InTxt(k) => TxtOf(k).content_length = PyInt(0)
                 /\ InJson(k) => JsonOf(k).content_length = PyInt(0)
            /\ InJson(k) =>
                 /\ r.links \in {Missing, None} =>
                      JsonOf(k).links_found = PyInt(0)
                 /\ r.media \in {Missing, None} =>
                      JsonOf(k).images_found = PyInt(0)
                 /\ r.links.t = "dict" =>
                      JsonOf(k).links_found = PyInt(CountIn(r.links))
                 /\ r.media.t = "dict" =>
                      JsonOf(k).images_found = PyInt(CountIn(r.media))

C9_Witness ==
    /\ pc = "done"
    /\ \E k \in 1..Len(results) :
         /\ results[k].cleaned_html = None
         /\ results[k].metadata = BareProfile.metadata
         /\ results[k].links = Missing
    /\ \E k \in 1..Len(results) : results[k].links.t = "dict"

\* C10 as stated: the crawl date of the markdown header, of the text header
\* and of crawl_info is the instant of the file-name timestamp, even when
\* the clock advances between the writes.
C10_OneCrawlDate ==
    /\ md_file.state # "none" => md_file.crawl_date = timestamp
    /\ txt_file.state # "none" => txt_file.crawl_date = timestamp
    /\ json_data.crawl_info # NoInfo =>
         json_data.crawl_info.crawl_date = timestamp

====
